---- MODULE Spec2Model ----
(***************************************************************************)
(* Video chat backend: the FastAPI WebSocket endpoint (backend/main.py)    *)
(* and the per-connection wrapper GeminiVideoChat around the vendor live   *)
(* session (backend/gemini_client.py).                                     *)
(*                                                                         *)
(* Every endpoint invocation is a handler h.  The wrapper a handler        *)
(* creates is named by the same h, so is_active[h], session[h], ... are    *)
(* the fields of the GeminiVideoChat object constructed by handler h.      *)
(* asyncio runs one coroutine at a time, so an action is the code between  *)
(* two suspension points of one coroutine.                                 *)
(***************************************************************************)
EXTENDS Integers, Sequences, FiniteSets, TLC

VARIABLES
    active_connections, \* main.py: dict client_id -> handler whose websocket/wrapper is stored
    client_id,          \* path parameter of each endpoint invocation
    epc,                \* position of websocket_endpoint
    hm,                 \* position of handle_messages
    hr,                 \* position of handle_responses / get_responses
    target,             \* the wrapper whose cleanup() the handler's finally block is running
    ws,                 \* the client WebSocket: "open", "client_gone" (the client has closed
                        \* it), "disconnected" (receive_text has reported that)
    session,            \* GeminiVideoChat.session
    session_context,    \* GeminiVideoChat._session_context
    is_active,          \* GeminiVideoChat.is_active
    out_queue,          \* GeminiVideoChat.out_queue
    response_queue,     \* GeminiVideoChat.response_queue
    response_task,      \* GeminiVideoChat._response_task and the position of _listen_responses
    send_task,          \* GeminiVideoChat._send_task and the position of _send_realtime
    received,           \* history: non-empty responses the listener got from the session
    queued,             \* history: response_data items put on response_queue
    sent,               \* history: "response" messages written to the client WebSocket
    nresp,              \* number of responses the vendor session has produced so far
    cleaned,            \* history: number of cleanup() calls on the wrapper (saturating)
    closes,             \* history: number of __aexit__ calls on the session (saturating)
    last,               \* history: the last dispatched message's type, the wrapper method
                        \* called, the reply written, and whether the queue was full
    budget              \* what the environment may still do (connections, messages, responses)

vars == <<active_connections, client_id, epc, hm, hr, target, ws,
          session, session_context, is_active, out_queue, response_queue,
          response_task, send_task, received, queued, sent, nresp,
          cleaned, closes, last, budget>>

wrapperVars == <<session, session_context, is_active, out_queue, response_queue,
                 response_task, send_task>>

-----------------------------------------------------------------------------
(* Bounds of the model. *)

\* client messages in the workloads that are about responses or connections
MaxMessages == 1
\* client messages in the workload that sends every type of message
MaxDispatched == 2
\* vendor responses in the workload that relays them
MaxResponses == 3
\* responses that are not plain audio chunks (empty, text, transcriptions)
MaxOddResponses == 1
\* the history counters cleaned and closes saturate here
MaxCount == 2

Handlers == {1, 2}
ClientIds == {"a", "b"}

-----------------------------------------------------------------------------
(* Program constants. *)

\* asyncio.Queue(maxsize=5)
OutQueueMaxsize == 5
\* asyncio.Queue(): maxsize 0 means the queue never reports full
ResponseQueueMaxsize == 0

None == "None"

-----------------------------------------------------------------------------
(* Inputs. *)

\* frame_data of a "video_frame" message: base64 of a JPEG, base64 of bytes that
\* are no image, or a string that is no base64
FrameData == {"jpeg", "not_image", "not_base64"}
\* audio_data of an "audio_data" message: base64 of PCM samples, or no base64
AudioData == {"pcm", "not_base64"}
Missing == "<missing>"
InvalidJson == "<invalid json>"

\* What websocket.receive_text() can deliver.  type is the "type" member of the
\* decoded object (Missing: the object has none; InvalidJson: json.loads fails),
\* data is the member the branch reads ("data", "text" or "timestamp").
Messages ==
    [type : {"video_frame"}, data : FrameData \cup {Missing}]
    \cup [type : {"audio_data"}, data : AudioData \cup {Missing}]
    \cup [type : {"text_message"}, data : {"hello", Missing}]
    \cup [type : {"ping"}, data : {"17", Missing}]
    \cup [type : {"unknown", Missing, InvalidJson}, data : {Missing}]

\* The attributes of a vendor response that are set and truthy.
Attributes == {"text", "data", "output_transcription", "input_transcription"}
AudioChunk == {"data"}
OddShapes == {{}, {"text"}, {"output_transcription"}, {"input_transcription"}}

\* Text of an exception raised by the vendor session: which of the two
\* substrings the loops look for it contains.
ExceptionTexts == [disconnect_message : BOOLEAN, connection_closed : BOOLEAN]

-----------------------------------------------------------------------------
(* asyncio.Queue *)

NoQueue == [none |-> TRUE, items |-> <<>>]
Queue(items) == [none |-> FALSE, items |-> items]

full(items, maxsize) == maxsize > 0 /\ Len(items) >= maxsize

put_nowait_evicting(items, maxsize, item) ==
    IF full(items, maxsize)
    THEN [items |-> Append(Tail(items), item), exc |-> "NoException"]
    ELSE [items |-> Append(items, item), exc |-> "NoException"]

put_nowait(items, maxsize, item) ==
    IF full(items, maxsize)
    THEN [items |-> items, exc |-> "QueueFull"]
    ELSE [items |-> Append(items, item), exc |-> "NoException"]

\* try: ... except <classes>: what still propagates
except(exc, classes) == IF exc \in classes THEN "NoException" ELSE exc

\* subclasses of Exception that occur in the model (CancelledError is none)
Exception == {"QueueFull", "binascii.Error", "KeyError", "JSONDecodeError",
              "VendorError", "WebSocketDisconnect", "RuntimeError", "TimeoutError"}

-----------------------------------------------------------------------------
(* GeminiVideoChat: the three send methods, as the new out_queue items and the *)
(* exception that reaches the caller.                                          *)

\* what a send method leaves when it returns at once or changes nothing
Unchanged(h, exc) ==
    [items |-> out_queue[h].items, exc |-> exc, skipped |-> FALSE, vendor |-> FALSE]

\* try: self.out_queue.put_nowait(item) except asyncio.QueueFull: log "skipping"
put_or_skip(h, item) ==
    LET put == put_nowait(out_queue[h].items, OutQueueMaxsize, item)
    IN  [items |-> put.items, exc |-> except(put.exc, {"QueueFull"}),
         skipped |-> put.exc = "QueueFull", vendor |-> FALSE]

send_video_frame(h, frame_data) ==
    IF session[h] = None \/ ~is_active[h]
    THEN Unchanged(h, "NoException")
    ELSE LET body ==
                 IF frame_data = "not_base64" THEN Unchanged(h, "binascii.Error")
                 ELSE IF frame_data = "not_image" THEN Unchanged(h, "NoException")
                 ELSE put_or_skip(h, "image/jpeg")
         IN  [body EXCEPT !.exc = except(@, Exception)]

send_audio_data(h, audio_data) ==
    IF session[h] = None \/ ~is_active[h]
    THEN Unchanged(h, "NoException")
    ELSE LET body ==
                 IF audio_data = "not_base64" THEN Unchanged(h, "binascii.Error")
                 ELSE put_or_skip(h, "audio/pcm")
         IN  [body EXCEPT !.exc = except(@, Exception)]

send_text_unguarded(h, text, vendor_exc) ==
    [Unchanged(h, except(vendor_exc, Exception)) EXCEPT !.vendor = TRUE]

\* vendor_exc: what session.send raises ("NoException" when it returns)
send_text(h, text, vendor_exc) ==
    IF session[h] = None \/ ~is_active[h]
    THEN Unchanged(h, "NoException")
    ELSE [Unchanged(h, except(vendor_exc, Exception)) EXCEPT !.vendor = TRUE]

-----------------------------------------------------------------------------
(* _listen_responses and _send_realtime: the pieces both loops share. *)

\* "disconnect message has been received" in str(e) or "ConnectionClosed" in str(e)
is_disconnect_only_message(text) == text.disconnect_message

is_disconnect(text) == text.disconnect_message \/ text.connection_closed

\* response_data of the listener: the keys it sets for the truthy attributes
ResponseKey(a) ==
    CASE a = "text" -> "text"
      [] a = "data" -> "audio"
      [] a = "output_transcription" -> "transcription"
      [] a = "input_transcription" -> "user_transcription"

response_data(id, attrs) == [id |-> id, keys |-> {ResponseKey(a) : a \in attrs \cap Attributes}]

\* if response_data: await self.response_queue.put(response_data)
listener_put(items, rd) ==
    IF rd.keys # {} THEN put_nowait(items, ResponseQueueMaxsize, rd).items ELSE items

\* the while condition of both loops; leaving the loop runs the finally block
loop_continues(h) == is_active[h] /\ session[h] # None

Bump(n) == IF n < MaxCount THEN n + 1 ELSE n

-----------------------------------------------------------------------------
(* get_responses *)

\* self.response_queue.get(): the item taken and what stays queued
queue_get_keeping(items) == [item |-> Head(items), items |-> items]

queue_get(items) == [item |-> Head(items), items |-> Tail(items)]

\* while self.is_active: the generator ends when the wrapper is inactive
generator_continues(h) == IF is_active[h] THEN "wait" ELSE "done"

-----------------------------------------------------------------------------
(* handle_messages: the if/elif chain on message["type"]. *)

NoReply == <<>>

dispatch_audio_as_video(m) ==
    IF m.type = InvalidJson
    THEN [call |-> "none", reply |-> <<"error", "Invalid JSON format">>]
    ELSE IF m.type \in {"video_frame", "audio_data"} /\ m.data # Missing
    THEN [call |-> "send_video_frame", reply |-> NoReply]
    ELSE IF m.type = "text_message" /\ m.data # Missing
    THEN [call |-> "send_text", reply |-> NoReply]
    ELSE IF m.type = "ping"
    THEN [call |-> "none", reply |-> <<"pong", IF m.data = Missing THEN None ELSE m.data>>]
    ELSE [call |-> "none", reply |-> NoReply]

dispatch(m) ==
    IF m.type = InvalidJson
    THEN [call |-> "none", reply |-> <<"error", "Invalid JSON format">>]
    ELSE IF m.type = Missing
    THEN [call |-> "none", reply |-> NoReply]
    ELSE IF m.type = "video_frame"
    THEN IF m.data = Missing
         THEN [call |-> "none", reply |-> NoReply]
         ELSE [call |-> "send_video_frame", reply |-> NoReply]
    ELSE IF m.type = "audio_data"
    THEN IF m.data = Missing
         THEN [call |-> "none", reply |-> NoReply]
         ELSE [call |-> "send_audio_data", reply |-> NoReply]
    ELSE IF m.type = "text_message"
    THEN IF m.data = Missing
         THEN [call |-> "none", reply |-> NoReply]
         ELSE [call |-> "send_text", reply |-> NoReply]
    ELSE IF m.type = "ping"
    THEN [call |-> "none", reply |-> <<"pong", IF m.data = Missing THEN None ELSE m.data>>]
    ELSE [call |-> "none", reply |-> NoReply]

NoDispatch ==
    [type |-> None, call |-> "none", reply |-> NoReply, skipped |-> FALSE,
     vendor |-> FALSE, active |-> FALSE]

-----------------------------------------------------------------------------
(* Initial states. *)

\* conn connections, msg client messages (negative: any number) of the given
\* types, resp vendor responses of which odd are no plain audio chunks
Workload(conn, msg, types, resp, odd) ==
    [conn |-> conn, msg |-> msg, types |-> types, resp |-> resp, odd |-> odd]

MessageTypes == {m.type : m \in Messages}

InitWith(b) ==
    /\ active_connections = [c \in ClientIds |-> 0]
    /\ client_id = [h \in Handlers |-> None]
    /\ epc = [h \in Handlers |-> "idle"]
    /\ hm = [h \in Handlers |-> "none"]
    /\ hr = [h \in Handlers |-> "none"]
    /\ target = [h \in Handlers |-> 0]
    /\ ws = [h \in Handlers |-> "connecting"]
    /\ session = [h \in Handlers |-> None]
    /\ session_context = [h \in Handlers |-> "unset"]
    /\ is_active = [h \in Handlers |-> FALSE]
    /\ out_queue = [h \in Handlers |-> NoQueue]
    /\ response_queue = [h \in Handlers |-> <<>>]
    /\ response_task = [h \in Handlers |-> None]
    /\ send_task = [h \in Handlers |-> None]
    /\ received = [h \in Handlers |-> <<>>]
    /\ queued = [h \in Handlers |-> <<>>]
    /\ sent = [h \in Handlers |-> <<>>]
    /\ nresp = [h \in Handlers |-> 0]
    /\ cleaned = [h \in Handlers |-> 0]
    /\ closes = [h \in Handlers |-> 0]
    /\ last = NoDispatch
    /\ budget = b

\* one connection: a few responses of every shape, one audio chunk from the client
Init == InitWith(Workload(1, MaxMessages, {"audio_data"}, MaxResponses, MaxOddResponses))
\* one connection: the session produces more audio chunks than out_queue could hold
InitFlood == InitWith(Workload(1, MaxMessages, {"audio_data"}, OutQueueMaxsize + 1, 0))
\* one connection: the client sends frames and audio without limit
InitOut == InitWith(Workload(1, -1, {"video_frame", "audio_data"}, 1, 0))
\* one connection: the client sends a few messages of every type
InitDispatch == InitWith(Workload(1, MaxDispatched, MessageTypes, 1, 0))
\* two connections, which may use the same client id
InitTwo == InitWith(Workload(2, MaxMessages, {"audio_data"}, 1, 0))

-----------------------------------------------------------------------------
(* websocket_endpoint *)

\* active_connections[c] = 0: the dict has no key c
Registered(c) == active_connections[c] # 0

Register(c, h) == [active_connections EXCEPT ![c] = h]

Unregister(c) == [active_connections EXCEPT ![c] = 0]

\* accept, GeminiVideoChat(), the registry entry, and start_session up to
\* its await of __aenter__
Accept(h, c) ==
    /\ epc[h] = "idle"
    /\ budget.conn > 0
    /\ \A g \in Handlers : g < h => epc[g] # "idle"
    /\ budget' = [budget EXCEPT !.conn = @ - 1]
    /\ client_id' = [client_id EXCEPT ![h] = c]
    /\ ws' = [ws EXCEPT ![h] = "open"]
    /\ active_connections' = Register(c, h)
    /\ session_context' = [session_context EXCEPT ![h] = "context"]
    /\ epc' = [epc EXCEPT ![h] = "start_session"]
    /\ UNCHANGED <<hm, hr, target, session, is_active, out_queue,
                   response_queue, response_task, send_task, received, queued, sent,
                   nresp, cleaned, closes, last>>

\* GeminiVideoChat() raises (no credentials file, or genai.Client fails): the
\* exception leaves the endpoint before its try block
ConstructorRaises(h, c) ==
    /\ epc[h] = "idle"
    /\ budget.conn > 0
    /\ \A g \in Handlers : g < h => epc[g] # "idle"
    /\ budget' = [budget EXCEPT !.conn = @ - 1]
    /\ client_id' = [client_id EXCEPT ![h] = c]
    /\ ws' = [ws EXCEPT ![h] = "open"]
    /\ epc' = [epc EXCEPT ![h] = "crashed"]
    /\ UNCHANGED <<active_connections, hm, hr, target, session,
                   session_context, is_active, out_queue, response_queue,
                   response_task, send_task, received, queued, sent, nresp,
                   cleaned, closes, last>>

\* __aenter__ returns: the rest of start_session, and the two new tasks run to
\* their first await (the listener for a response, the sender for a message)
\* while the endpoint awaits the connection_status send
StartSessionReturns(h) ==
    /\ epc[h] = "start_session"
    /\ session' = [session EXCEPT ![h] = "session"]
    /\ is_active' = [is_active EXCEPT ![h] = TRUE]
    /\ out_queue' = [out_queue EXCEPT ![h] = Queue(<<>>)]
    /\ response_task' = [response_task EXCEPT ![h] = "recv"]
    /\ send_task' = [send_task EXCEPT ![h] = "wait"]
    /\ epc' = [epc EXCEPT ![h] = "send_status"]
    /\ UNCHANGED <<active_connections, client_id, hm, hr, target, ws,
                   session_context, response_queue, received, queued, sent, nresp,
                   cleaned, closes, last, budget>>

\* __aenter__ raises: start_session re-raises, the endpoint's except Exception
\* tries to send an error message and falls into its finally block
StartSessionRaises(h) ==
    /\ epc[h] = "start_session"
    /\ epc' = [epc EXCEPT ![h] = "finally"]
    /\ UNCHANGED <<active_connections, client_id, hm, hr, target, ws,
                   wrapperVars, received, queued, sent, nresp, cleaned,
                   closes, last, budget>>

\* the connection_status send returns; asyncio.gather starts both handlers
SendStatusReturns(h) ==
    /\ epc[h] = "send_status"
    /\ ws[h] = "open"
    /\ epc' = [epc EXCEPT ![h] = "gather"]
    /\ hm' = [hm EXCEPT ![h] = "recv"]
    /\ hr' = [hr EXCEPT ![h] = generator_continues(h)]
    /\ UNCHANGED <<active_connections, client_id, target, ws,
                   wrapperVars, received, queued, sent, nresp, cleaned,
                   closes, last, budget>>

\* the connection_status send raises: the client is gone
SendStatusRaises(h) ==
    /\ epc[h] = "send_status"
    /\ ws[h] # "open"
    /\ epc' = [epc EXCEPT ![h] = "finally"]
    /\ UNCHANGED <<active_connections, client_id, hm, hr, target, ws,
                   wrapperVars, received, queued, sent, nresp, cleaned,
                   closes, last, budget>>

\* the endpoint is at its finally block: an exception brought it there, or
\* gather returned because both handlers returned
AtFinally(h) ==
    \/ epc[h] = "finally"
    \/ epc[h] = "gather" /\ hm[h] = "done" /\ hr[h] = "done"

not_cancelled(task) == task

\* task.cancel() and await task, for a task that is not done
cancelled(task) == IF task \in {None, "done"} THEN task ELSE "done"

cleared(q) == IF q.none THEN q ELSE Queue(<<>>)

\* finally: when client_id is registered, cleanup() of the registered wrapper
\* w, up to its await of __aexit__ (when it has a session to close) or to its
\* end and the del of the registry entry; otherwise nothing
Finally(h) ==
    /\ AtFinally(h)
    /\ IF Registered(client_id[h])
       THEN LET w == active_connections[client_id[h]]
                closing == session[w] # None /\ session_context[w] # "unset"
            IN  /\ is_active' = [is_active EXCEPT ![w] = FALSE]
                /\ response_task' = [response_task EXCEPT ![w] = cancelled(@)]
                /\ send_task' = [send_task EXCEPT ![w] = cancelled(@)]
                /\ cleaned' = [cleaned EXCEPT ![w] = Bump(@)]
                /\ IF closing
                   THEN /\ closes' = [closes EXCEPT ![w] = Bump(@)]
                        /\ target' = [target EXCEPT ![h] = w]
                        /\ epc' = [epc EXCEPT ![h] = "closing"]
                        /\ UNCHANGED <<out_queue, response_queue, active_connections>>
                   ELSE /\ out_queue' = [out_queue EXCEPT ![w] = cleared(@)]
                        /\ response_queue' = [response_queue EXCEPT ![w] = <<>>]
                        /\ active_connections' = Unregister(client_id[h])
                        /\ epc' = [epc EXCEPT ![h] = "done"]
                        /\ UNCHANGED <<closes, target>>
       ELSE /\ epc' = [epc EXCEPT ![h] = "done"]
            /\ UNCHANGED <<active_connections, target, is_active, out_queue,
                           response_queue, response_task, send_task, cleaned, closes>>
    /\ UNCHANGED <<client_id, hm, hr, ws, session, session_context,
                   received, queued, sent, nresp, last, budget>>

\* __aexit__ returns or raises: the rest of cleanup() and the del of the
\* registry entry (a KeyError when another handler has deleted it)
CloseReturns(h) ==
    /\ epc[h] = "closing"
    /\ LET w == target[h]
       IN  /\ session' = [session EXCEPT ![w] = None]
           /\ session_context' = [session_context EXCEPT ![w] = None]
           /\ out_queue' = [out_queue EXCEPT ![w] = cleared(@)]
           /\ response_queue' = [response_queue EXCEPT ![w] = <<>>]
    /\ active_connections' = Unregister(client_id[h])
    /\ target' = [target EXCEPT ![h] = 0]
    /\ epc' = [epc EXCEPT ![h] = "done"]
    /\ UNCHANGED <<client_id, hm, hr, ws, is_active, response_task,
                   send_task, received, queued, sent, nresp, cleaned,
                   closes, last, budget>>

-----------------------------------------------------------------------------
(* _listen_responses *)

\* the turn yields a response whose truthy attributes are attrs
ListenerReceives(h, attrs) ==
    /\ response_task[h] = "recv"
    /\ budget.resp > 0
    /\ attrs # AudioChunk => budget.odd > 0
    /\ budget' = [budget EXCEPT !.resp = @ - 1,
                                !.odd = IF attrs # AudioChunk THEN @ - 1 ELSE @]
    /\ nresp' = [nresp EXCEPT ![h] = @ + 1]
    /\ LET rd == response_data(nresp[h] + 1, attrs)
       IN  /\ received' = [received EXCEPT ![h] = IF attrs # {} THEN Append(@, rd) ELSE @]
           /\ IF ~is_active[h]
              THEN /\ response_task' = [response_task EXCEPT ![h] = "done"]
                   /\ UNCHANGED <<response_queue, queued>>
              ELSE /\ response_queue' = [response_queue EXCEPT ![h] = listener_put(@, rd)]
                   /\ queued' = [queued EXCEPT ![h] =
                                    IF response_queue'[h] # response_queue[h]
                                    THEN Append(@, rd) ELSE @]
                   /\ UNCHANGED response_task
    /\ UNCHANGED <<active_connections, client_id, epc, hm, hr, target,
                   ws, session, session_context, is_active, out_queue, send_task,
                   sent, cleaned, closes, last>>

\* the turn ends: the loop starts the next turn, or stops when inactive
ListenerTurnEnds(h) ==
    /\ response_task[h] = "recv"
    /\ response_task' = [response_task EXCEPT ![h] = IF loop_continues(h) THEN "recv" ELSE "done"]
    /\ is_active' = [is_active EXCEPT ![h] = loop_continues(h)]
    /\ UNCHANGED <<active_connections, client_id, epc, hm, hr, target,
                   ws, session, session_context, out_queue, response_queue,
                   send_task, received, queued, sent, nresp, cleaned,
                   closes, last, budget>>

\* session.receive() or the turn raises an exception with this text
ListenerCatches(h, text) ==
    /\ response_task[h] = "recv"
    /\ IF is_disconnect(text)
       THEN /\ is_active' = [is_active EXCEPT ![h] = FALSE]
            /\ response_task' = [response_task EXCEPT ![h] = "done"]
       ELSE /\ response_task' = [response_task EXCEPT ![h] = "sleep"]
            /\ UNCHANGED is_active
    /\ UNCHANGED <<active_connections, client_id, epc, hm, hr, target,
                   ws, session, session_context, out_queue, response_queue,
                   send_task, received, queued, sent, nresp, cleaned, closes, last,
                   budget>>

\* asyncio.sleep(1) returns
ListenerWakes(h) ==
    /\ response_task[h] = "sleep"
    /\ response_task' = [response_task EXCEPT ![h] = IF loop_continues(h) THEN "recv" ELSE "done"]
    /\ is_active' = [is_active EXCEPT ![h] = loop_continues(h)]
    /\ UNCHANGED <<active_connections, client_id, epc, hm, hr, target,
                   ws, session, session_context, out_queue, response_queue,
                   send_task, received, queued, sent, nresp, cleaned,
                   closes, last, budget>>

-----------------------------------------------------------------------------
(* _send_realtime *)

\* out_queue.get() returns a message: it is sent unless the wrapper is inactive
SenderGets(h) ==
    /\ send_task[h] = "wait"
    /\ out_queue[h].items # <<>>
    /\ out_queue' = [out_queue EXCEPT ![h] = Queue(queue_get(@.items).items)]
    /\ send_task' = [send_task EXCEPT ![h] = IF is_active[h] THEN "sending" ELSE "done"]
    /\ UNCHANGED <<active_connections, client_id, epc, hm, hr, target,
                   ws, session, session_context, is_active, response_queue,
                   response_task, received, queued, sent, nresp, cleaned,
                   closes, last, budget>>

\* asyncio.wait_for times out after 1 s on an empty queue: continue
SenderTimesOut(h) ==
    /\ send_task[h] = "wait"
    /\ out_queue[h].items = <<>>
    /\ send_task' = [send_task EXCEPT ![h] = IF loop_continues(h) THEN "wait" ELSE "done"]
    /\ is_active' = [is_active EXCEPT ![h] = loop_continues(h)]
    /\ UNCHANGED <<active_connections, client_id, epc, hm, hr, target,
                   ws, session, session_context, out_queue, response_queue,
                   response_task, received, queued, sent, nresp, cleaned,
                   closes, last, budget>>

\* session.send(input=msg) returns
SenderSent(h) ==
    /\ send_task[h] = "sending"
    /\ send_task' = [send_task EXCEPT ![h] = IF loop_continues(h) THEN "wait" ELSE "done"]
    /\ is_active' = [is_active EXCEPT ![h] = loop_continues(h)]
    /\ UNCHANGED <<active_connections, client_id, epc, hm, hr, target,
                   ws, session, session_context, out_queue, response_queue,
                   response_task, received, queued, sent, nresp, cleaned,
                   closes, last, budget>>

\* session.send(input=msg) raises an exception with this text
SenderCatches(h, text) ==
    /\ send_task[h] = "sending"
    /\ IF is_disconnect(text)
       THEN /\ is_active' = [is_active EXCEPT ![h] = FALSE]
            /\ send_task' = [send_task EXCEPT ![h] = "done"]
       ELSE /\ send_task' = [send_task EXCEPT ![h] = "sleep"]
            /\ UNCHANGED is_active
    /\ UNCHANGED <<active_connections, client_id, epc, hm, hr, target,
                   ws, session, session_context, out_queue, response_queue,
                   response_task, received, queued, sent, nresp, cleaned, closes,
                   last, budget>>

\* asyncio.sleep(0.1) returns
SenderWakes(h) ==
    /\ send_task[h] = "sleep"
    /\ send_task' = [send_task EXCEPT ![h] = IF loop_continues(h) THEN "wait" ELSE "done"]
    /\ is_active' = [is_active EXCEPT ![h] = loop_continues(h)]
    /\ UNCHANGED <<active_connections, client_id, epc, hm, hr, target,
                   ws, session, session_context, out_queue, response_queue,
                   response_task, received, queued, sent, nresp, cleaned,
                   closes, last, budget>>

-----------------------------------------------------------------------------
(* handle_responses, iterating get_responses *)

\* response_queue.get() returns, the generator yields the response, and
\* websocket.send_text of the "response" message returns (the generator is
\* resumed) or raises (break)
ResponseRelayed(h) ==
    /\ hr[h] = "wait"
    /\ response_queue[h] # <<>>
    /\ LET got == queue_get(response_queue[h])
       IN  /\ response_queue' = [response_queue EXCEPT ![h] = got.items]
           /\ IF ws[h] = "open"
              THEN /\ sent' = [sent EXCEPT ![h] = Append(@, got.item)]
                   /\ hr' = [hr EXCEPT ![h] = generator_continues(h)]
              ELSE /\ hr' = [hr EXCEPT ![h] = "done"]
                   /\ UNCHANGED sent
    /\ UNCHANGED <<active_connections, client_id, epc, hm, target, ws, session,
                   session_context, is_active, out_queue, response_task, send_task,
                   received, queued, nresp, cleaned, closes, last, budget>>

\* asyncio.wait_for times out after 30 s on an empty queue: continue
ResponseTimesOut(h) ==
    /\ hr[h] = "wait"
    /\ response_queue[h] = <<>>
    /\ hr' = [hr EXCEPT ![h] = generator_continues(h)]
    /\ UNCHANGED <<active_connections, client_id, epc, hm, target, ws,
                   wrapperVars, received, queued, sent, nresp, cleaned,
                   closes, last, budget>>

-----------------------------------------------------------------------------
(* handle_messages *)

\* receive_text returns message m, which is dispatched; vendor_exc is what
\* session.send raises when send_text calls it.  last keeps what was done: the
\* method called, whether it reached the vendor session, and whether the
\* wrapper was active when it was called
MessageHandled(h, m, vendor_exc) ==
    /\ hm[h] = "recv"
    /\ ws[h] = "open"
    /\ budget.msg # 0
    /\ m.type \in budget.types
    /\ budget' = [budget EXCEPT !.msg = IF @ > 0 THEN @ - 1 ELSE @]
    /\ LET d == dispatch(m)
           r == CASE d.call = "send_video_frame" -> send_video_frame(h, m.data)
                  [] d.call = "send_audio_data" -> send_audio_data(h, m.data)
                  [] d.call = "send_text" -> send_text(h, m.data, vendor_exc)
                  [] OTHER -> Unchanged(h, "NoException")
       IN  /\ out_queue' = [out_queue EXCEPT ![h] = IF @.none THEN @ ELSE Queue(r.items)]
           /\ last' = [type |-> m.type, call |-> d.call, reply |-> d.reply,
                       skipped |-> r.skipped, vendor |-> r.vendor,
                       active |-> session[h] # None /\ is_active[h]]
    /\ UNCHANGED <<active_connections, client_id, epc, hm, hr, target,
                   ws, session, session_context, is_active, response_queue,
                   response_task, send_task, received, queued, sent, nresp,
                   cleaned, closes>>


\* receive_text raises: WebSocketDisconnect the first time after the client
\* has gone, an error on every later call.  The inner except Exception catches
\* either and the while True loop goes on.
ReceiveRaises(h) ==
    /\ hm[h] = "recv"
    /\ ws[h] \in {"client_gone", "disconnected"}
    /\ ws' = [ws EXCEPT ![h] = "disconnected"]
    /\ hm' = [hm EXCEPT ![h] = IF except("WebSocketDisconnect", Exception) = "NoException"
                               THEN "recv" ELSE "done"]
    /\ UNCHANGED <<active_connections, client_id, epc, hr, target,
                   wrapperVars, received, queued, sent, nresp, cleaned,
                   closes, last, budget>>

\* the client closes its side of the WebSocket
ClientDisconnects(h) ==
    /\ ws[h] = "open"
    /\ epc[h] \in {"start_session", "send_status", "gather"}
    /\ ws' = [ws EXCEPT ![h] = "client_gone"]
    /\ UNCHANGED <<active_connections, client_id, epc, hm, hr, target,
                   wrapperVars, received, queued, sent, nresp, cleaned,
                   closes, last, budget>>

-----------------------------------------------------------------------------

\* what session.send can do when send_text calls it; no other message calls it
SendOutcomes(m) ==
    IF m.type = "text_message" THEN {"NoException", "VendorError"} ELSE {"NoException"}

Next ==
    \/ \E h \in Handlers, c \in ClientIds : Accept(h, c)
    \/ \E h \in Handlers, c \in ClientIds : ConstructorRaises(h, c)
    \/ \E h \in Handlers : StartSessionReturns(h)
    \/ \E h \in Handlers : StartSessionRaises(h)
    \/ \E h \in Handlers : SendStatusReturns(h)
    \/ \E h \in Handlers : SendStatusRaises(h)
    \/ \E h \in Handlers : Finally(h)
    \/ \E h \in Handlers : CloseReturns(h)
    \/ \E h \in Handlers, attrs \in {AudioChunk} \cup OddShapes : ListenerReceives(h, attrs)
    \/ \E h \in Handlers : ListenerTurnEnds(h)
    \/ \E h \in Handlers, text \in ExceptionTexts : ListenerCatches(h, text)
    \/ \E h \in Handlers : ListenerWakes(h)
    \/ \E h \in Handlers : SenderGets(h)
    \/ \E h \in Handlers : SenderTimesOut(h)
    \/ \E h \in Handlers : SenderSent(h)
    \/ \E h \in Handlers, text \in ExceptionTexts : SenderCatches(h, text)
    \/ \E h \in Handlers : SenderWakes(h)
    \/ \E h \in Handlers : ResponseRelayed(h)
    \/ \E h \in Handlers : ResponseTimesOut(h)
    \/ \E h \in Handlers, m \in Messages : \E x \in SendOutcomes(m) : MessageHandled(h, m, x)
    \/ \E h \in Handlers : ReceiveRaises(h)
    \/ \E h \in Handlers : ClientDisconnects(h)

Spec == Init /\ [][Next]_vars
SpecFlood == InitFlood /\ [][Next]_vars
SpecOut == InitOut /\ [][Next]_vars
SpecDispatch == InitDispatch /\ [][Next]_vars
SpecTwo == InitTwo /\ [][Next]_vars


\* The coroutines are scheduled fairly, timers fire, and a pending call on the
\* vendor session or the WebSocket completes.  Nothing obliges the client to
\* send or to disconnect, nor the vendor to produce a response or an error.
Fairness ==
    \A h \in Handlers :
        /\ WF_vars(StartSessionReturns(h) \/ StartSessionRaises(h))
        /\ WF_vars(SendStatusReturns(h) \/ SendStatusRaises(h))
        /\ WF_vars(Finally(h))
        /\ WF_vars(CloseReturns(h))
        /\ WF_vars(ListenerWakes(h))
        /\ WF_vars(SenderGets(h))
        /\ WF_vars(SenderTimesOut(h))
        /\ WF_vars(SenderSent(h) \/ \E text \in ExceptionTexts : SenderCatches(h, text))
        /\ WF_vars(SenderWakes(h))
        /\ WF_vars(ResponseRelayed(h))
        /\ WF_vars(ResponseTimesOut(h))
        /\ WF_vars(ReceiveRaises(h))

FairSpec == SpecOut /\ Fairness


-----------------------------------------------------------------------------
(* The claims. *)

IsPrefix(s, t) == Len(s) <= Len(t) /\ \A i \in 1..Len(s) : s[i] = t[i]

Range(s) == {s[i] : i \in 1..Len(s)}

\* the endpoint has registered and has not finished its cleanup
Running == {"start_session", "send_status", "gather", "finally", "closing"}

\* C1: both queues are bounded: in every reachable state out_queue and
\* response_queue each hold at most a fixed maximum number of items.  The one
\* maximum the program fixes is the 5 of out_queue; response_queue is created
\* without one and grows with every response the client has not yet been sent.
C1_QueuesBounded ==
    \A h \in Handlers :
        /\ Len(out_queue[h].items) <= OutQueueMaxsize
        /\ Len(response_queue[h]) <= OutQueueMaxsize

\* C2: the "response" messages written to the client are a prefix of the
\* non-empty responses the listener received (same items, same order, none
\* repeated), and no response without text, audio, output transcription and
\* input transcription is relayed.
C2_RelayedInOrder ==
    \A h \in Handlers :
        /\ IsPrefix(sent[h], received[h])
        /\ \A i \in 1..Len(sent[h]) : sent[h][i].keys # {}
        /\ \A i, j \in 1..Len(sent[h]) : sent[h][i] = sent[h][j] => i = j

\* two responses relayed, one of them after an empty one that was not
C2_Witness ==
    \E h \in Handlers :
        /\ Len(sent[h]) >= 2
        /\ nresp[h] > Len(received[h])
        /\ \E i \in 1..Len(sent[h]) : sent[h][i].id > i

\* C3: every response the listener has put on response_queue is eventually
\* sent to the client, provided the WebSocket stays open and sends succeed.
\* Nothing is sent after handle_responses has returned, so when it has
\* returned with the WebSocket open every queued response must have been sent.
C3_QueuedResponsesDelivered ==
    \A h \in Handlers :
        (hr[h] = "done" /\ ws[h] = "open") => Range(queued[h]) \subseteq Range(sent[h])

\* C4: the dispatcher maps each message type to exactly one action:
\* "video_frame" calls only send_video_frame, "audio_data" only
\* send_audio_data, "text_message" only send_text, "ping" only writes a pong
\* with the message's timestamp and touches no session state; any other type
\* causes no call and no reply; and the message loop goes on.
ExpectedCall(type) ==
    CASE type = "video_frame" -> "send_video_frame"
      [] type = "audio_data" -> "send_audio_data"
      [] type = "text_message" -> "send_text"
      [] OTHER -> "none"

DispatchedAsClaimed(h, m) ==
    /\ hm'[h] = "recv"
    /\ last'.call \in {ExpectedCall(m.type), "none"}
    /\ m.data # Missing => last'.call = ExpectedCall(m.type)
    /\ m.type = "ping" =>
          last'.reply = <<"pong", IF m.data = Missing THEN None ELSE m.data>>
    /\ m.type \notin {"ping", InvalidJson} => last'.reply = NoReply
    /\ m.type \notin {"video_frame", "audio_data"} => UNCHANGED wrapperVars
    /\ m.type = "video_frame" =>
          out_queue'[h].items \in {out_queue[h].items, Append(out_queue[h].items, "image/jpeg")}
    /\ m.type = "audio_data" =>
          out_queue'[h].items \in {out_queue[h].items, Append(out_queue[h].items, "audio/pcm")}
    /\ UNCHANGED <<session, session_context, is_active, response_queue, response_task,
                   send_task, sent>>

C4_Dispatch ==
    [][\A h \in Handlers : \A m \in Messages : \A x \in SendOutcomes(m) :
          (last'.type = m.type /\ budget' # budget /\ MessageHandled(h, m, x))
              => DispatchedAsClaimed(h, m)]_vars

\* a ping was answered, with its timestamp, while a frame waits in the queue
C4_Witness ==
    /\ last.type = "ping"
    /\ last.reply = <<"pong", "17">>
    /\ \E h \in Handlers : out_queue[h].items = <<"image/jpeg">>

\* C5: when an endpoint handler has finished, cleanup() has been called on the
\* GeminiVideoChat instance this handler created, for every interleaving of
\* connections, also of two that use the same client_id.
C5_HandlerCleansOwnWrapper ==
    \A h \in Handlers : epc[h] = "done" => cleaned[h] > 0

\* C6: active_connections holds a client id exactly when some handler for that
\* id has registered and has not finished its cleanup, and the entry under an
\* id refers to a handler for that id that is still running.
C6_RegistryExact ==
    \A c \in ClientIds :
        /\ Registered(c) <=> \E h \in Handlers : client_id[h] = c /\ epc[h] \in Running
        /\ Registered(c) =>
              /\ client_id[active_connections[c]] = c
              /\ epc[active_connections[c]] \in Running

\* C7: in both loops an exception whose text holds neither "disconnect message
\* has been received" nor "ConnectionClosed" leaves is_active as it is and the
\* loop pauses and tries again, whatever number of times it has done so; an
\* exception whose text holds one of them sets is_active to false and ends the
\* loop.
Shutdown(text) == text.disconnect_message \/ text.connection_closed

C8_DisconnectEndsHandler ==
    \A h \in Handlers :
        (epc[h] = "gather" /\ ws[h] # "open")
            ~> (epc[h] = "done" /\ cleaned[h] > 0 /\ ~Registered(client_id[h]))

\* C9: when the session has become inactive while the client WebSocket is
\* open, the endpoint handler finishes (cleanup() run, client id removed); the
\* client need not disconnect for that.
C9_InactiveSessionEndsHandler ==
    \A h \in Handlers :
        (epc[h] = "gather" /\ ~is_active[h] /\ ws[h] = "open")
            ~> (ws[h] # "open" \/ (epc[h] = "done" /\ ~Registered(client_id[h])))

\* C10: when out_queue holds 5 items, send_video_frame and send_audio_data
\* return at once, the queue is as it was (the new frame or chunk is dropped,
\* no older item leaves) and no exception reaches the caller.
C10_OverflowDropsNewest ==
    [][\A h \in Handlers : \A m \in Messages :
          (/\ m.type \in {"video_frame", "audio_data"}
           /\ last'.type = m.type
           /\ Len(out_queue[h].items) = OutQueueMaxsize
           /\ MessageHandled(h, m, "NoException"))
          => /\ out_queue'[h] = out_queue[h]
             /\ hm'[h] = "recv"
             /\ send_video_frame(h, m.data).exc = "NoException"
             /\ send_audio_data(h, m.data).exc = "NoException"]_vars

\* a frame or chunk has just been skipped on a full queue that holds both kinds
C10_Witness ==
    \E h \in Handlers :
        /\ last.skipped
        /\ Len(out_queue[h].items) = OutQueueMaxsize
        /\ Range(out_queue[h].items) = {"image/jpeg", "audio/pcm"}

\* the wrapper takes no calls: it has no session or is not active
Inactive(h) == session[h] = None \/ ~is_active[h]

\* C11: whenever session is None or is_active is false (before start_session,
\* after a disconnect, after cleanup), send_video_frame, send_audio_data and
\* send_text return without enqueuing anything, without calling the vendor
\* session and without raising, and a message dispatched to them leaves every
\* field of the wrapper as it was.
C11_InactiveSendsAreNoOps ==
    [][\A h \in Handlers : Inactive(h) =>
          /\ \A d \in FrameData : send_video_frame(h, d) = Unchanged(h, "NoException")
          /\ \A d \in AudioData : send_audio_data(h, d) = Unchanged(h, "NoException")
          /\ \A x \in {"NoException", "VendorError"} :
                send_text(h, "hello", x) = Unchanged(h, "NoException")
          /\ \A m \in Messages : \A x \in SendOutcomes(m) :
                MessageHandled(h, m, x) =>
                    /\ UNCHANGED wrapperVars
                    /\ ~last'.vendor /\ ~last'.skipped
                    /\ hm'[h] = "recv"]_vars

\* a text message was passed to send_text after the session had disconnected
C11_Witness ==
    /\ last.call = "send_text"
    /\ ~last.active
    /\ ~last.vendor
    /\ \E h \in Handlers : hm[h] = "recv" /\ session[h] # None /\ ~is_active[h]

\* the cleanup() calls on wrapper w that are waiting for __aexit__
Closing(w) == {h \in Handlers : epc[h] = "closing" /\ target[h] = w}

\* a cleanup() that found the session of w started (and so closed it) has returned
CleanupReturned(w) == closes[w] > Cardinality(Closing(w))

CleanedUp(w) ==
    /\ ~is_active[w]
    /\ session[w] = None
    /\ response_task[w] = "done"
    /\ send_task[w] = "done"
    /\ out_queue[w].items = <<>>
    /\ response_queue[w] = <<>>

\* C12: once cleanup() has returned on a wrapper whose session was started,
\* is_active is false, session is None, the listener and the sender have
\* finished and out_queue and response_queue are empty, and this stays so in
\* every later state: no task enqueues a response or sends to the session.
C12_CleanupIsFinal ==
    \A w \in Handlers : CleanupReturned(w) => CleanedUp(w)

\* cleanup() has returned on a wrapper that had a response queued and not
\* relayed, and whose handler has not finished
C12_Witness ==
    \E w \in Handlers :
        /\ CleanupReturned(w)
        /\ Len(queued[w]) > Len(sent[w])
        /\ epc[w] \notin {"done", "closing"}

\* C13: cleanup() may be called in every lifecycle state and any number of
\* times: before start_session, after a start_session that raised, after the
\* session disconnected on its own, or after an earlier cleanup() it completes
\* and leaves the wrapper cleaned up, and __aexit__ of the vendor session is
\* invoked at most once for a started session.
C13_CleanupIdempotent ==
    \A w \in Handlers :
        /\ closes[w] <= 1
        /\ (cleaned[w] >= 2 /\ Closing(w) = {}) =>
              /\ ~is_active[w]
              /\ session[w] = None
              /\ response_task[w] \in {None, "done"}
              /\ send_task[w] \in {None, "done"}
              /\ out_queue[w].items = <<>>
              /\ response_queue[w] = <<>>

====
